---- MODULE Spec2Model ----
(***************************************************************************)
(* A model of the tool-dispatch layer of CHATboxJIMBO/Chatbotlocal:        *)
(*   - parse_tool_call_from_text  (mcp_tools.py, the call-syntax parser)   *)
(*   - MCPToolRegistry            (mcp_tools.py, registry and handlers)    *)
(*   - ResearchTools              (research_tools.py, search / dedup)      *)
(*                                                                         *)
(* Strings.  A Python str is modelled as a sequence of symbols.  A symbol  *)
(* is either one punctuation character ("[", "]", "/", ":", "=", "|", ".", *)
(* " ", "\n") or an indivisible run of word characters ("TOOL", "path",    *)
(* "k", ...).  The word symbols used below are uniquely decodable (every   *)
(* multi-letter word holds a letter that is no one-letter symbol), so two  *)
(* symbol sequences are equal exactly when the strings they spell are.     *)
(***************************************************************************)
EXTENDS Integers, Sequences, FiniteSets, TLC

VARIABLES
    text,          \* the model-generated text handed to the parser
    tool_calls,    \* parse_tool_call_from_text(text), once parsed
    pc,            \* position of the pipeline: "start" | "parsed" | "crashed"
    next_call,     \* index of the next request of tool_calls to execute
    outcomes,      \* outcome of every execute_tool call made so far, in order
    tools,         \* MCPToolRegistry.tools: name -> descriptor
    HAS_RESEARCH_TOOLS,  \* module flag set by the import of research_tools
    tavily_api_key,      \* ResearchTools.tavily_api_key ("" = not configured)
    client_calls,  \* ResearchTools methods invoked so far, in order
    fs,            \* the filesystem: location -> file content
    dirs,          \* the directories of the filesystem
    wpc,           \* per write_file call in flight: its position
    wreq,          \* per write_file call: its arguments
    wfd,           \* per write_file call: the location its open file refers to
    wres,          \* per write_file call: what the call returned
    ncalls,        \* write_file calls started so far
    upstream,      \* the results the research API answers with
    response,      \* the last ResearchResponse a client method returned
    expression,    \* the expression handed to _calculator
    calc           \* what _calculator did with it

vars == << text, tool_calls, pc, next_call, outcomes, tools, HAS_RESEARCH_TOOLS,
           tavily_api_key, client_calls, fs, dirs, wpc, wreq, wfd, wres, ncalls,
           upstream, response, expression, calc >>

writeVars == << fs, dirs, wpc, wreq, wfd, wres, ncalls >>
searchVars == << upstream, response >>
calcVars == << expression, calc >>

-----------------------------------------------------------------------------
(* Bounds of the model. *)

\* fragments a generated text is made of
MaxFrags == 5
\* symbols of an argument segment
MaxArgLen == 4
\* key=value pairs of a generated call
MaxPairs == 2
\* symbols of a write_file path argument
MaxPathLen == 3
\* sequential write_file calls
MaxCalls == 2
\* upstream results of one search
MaxResults == 2
\* the day "now" falls on; published dates lie in 0..MaxDay
MaxDay == 2

-----------------------------------------------------------------------------
(* Python str operations, on symbol sequences. *)

Punct == {"[", "]", "/", ":", "=", "|", ".", " ", "\n"}
Whitespace == {" ", "\n"}

\* \w : a word character
IsWord(c) == c \notin Punct

\* all sequences over S of length 0..n
SeqsUpTo(S, n) == UNION {[1..k -> S] : k \in 0..n}

\* s[i:]  (1-based i)
Drop(s, i) == SubSeq(s, i, Len(s))
\* s[:n]
Take(s, n) == SubSeq(s, 1, IF n < Len(s) THEN n ELSE Len(s))

\* c in s
Contains(s, c) == \E i \in 1..Len(s) : s[i] = c

\* s.find(c) + 1 : the first position of c in s, 0 when absent
IndexOf(s, c) ==
    IF Contains(s, c) THEN CHOOSE i \in 1..Len(s) : s[i] = c /\ \A j \in 1..(i-1) : s[j] # c
    ELSE 0

\* s.rfind(c) + 1 : the last position of c in s, 0 when absent
LastIndexOf(s, c) ==
    IF Contains(s, c) THEN CHOOSE i \in 1..Len(s) : s[i] = c /\ \A j \in (i+1)..Len(s) : s[j] # c
    ELSE 0

\* lit occurs in s at position p
HasAt(s, lit, p) ==
    /\ p >= 1
    /\ p + Len(lit) - 1 <= Len(s)
    /\ \A k \in 1..Len(lit) : s[p + k - 1] = lit[k]

\* the first position >= from at which lit occurs in s, 0 when there is none
FindLit(s, lit, from) ==
    LET hits == {p \in from..Len(s) : HasAt(s, lit, p)}
    IN IF hits = {} THEN 0 ELSE CHOOSE p \in hits : \A q \in hits : p <= q

\* the last position >= from at which lit occurs in s, 0 when there is none
FindLitLast(s, lit, from) ==
    LET hits == {p \in from..Len(s) : HasAt(s, lit, p)}
    IN IF hits = {} THEN 0 ELSE CHOOSE p \in hits : \A q \in hits : p >= q

\* str.strip(): leading and trailing whitespace removed
Strip(s) ==
    LET keep == {i \in 1..Len(s) : s[i] \notin Whitespace}
    IN IF keep = {} THEN << >>
       ELSE LET lo == CHOOSE i \in keep : \A j \in keep : i <= j
                hi == CHOOSE i \in keep : \A j \in keep : i >= j
            IN SubSeq(s, lo, hi)

\* str.split(sep): the pieces of s between the occurrences of sep
RECURSIVE Split(_, _)
Split(s, sep) ==
    LET i == IndexOf(s, sep)
    IN IF i = 0 THEN << s >>
       ELSE << SubSeq(s, 1, i - 1) >> \o Split(Drop(s, i + 1), sep)

\* str.split(sep, 1): split at the first sep only
SplitOnce(s, sep) ==
    LET i == IndexOf(s, sep)
    IN IF i = 0 THEN << s >>
       ELSE << SubSeq(s, 1, i - 1), Drop(s, i + 1) >>

\* the concatenation of a sequence of strings
RECURSIVE Concat(_)
Concat(ss) == IF ss = << >> THEN << >> ELSE Head(ss) \o Concat(Tail(ss))

\* sep.join(ss)
RECURSIVE Join(_, _)
Join(ss, sep) ==
    IF ss = << >> THEN << >>
    ELSE IF Len(ss) = 1 THEN ss[1]
    ELSE ss[1] \o sep \o Join(Tail(ss), sep)

\* a dict: a function from its keys; {} is the empty dict
EmptyDict == [x \in {} |-> << >>]
\* d[k] = v
DictSet(d, k, v) == [x \in (DOMAIN d) \cup {k} |-> IF x = k THEN v ELSE d[x]]

-----------------------------------------------------------------------------
(* parse_tool_call_from_text *)

\* the literal parts of  \[TOOL:(\w+)\](.*?)\[/TOOL\]
OPEN_LIT == << "[", "TOOL", ":" >>
CLOSE_LIT == << "[", "/", "TOOL", "]" >>

\* the end (exclusive) of the maximal run of word symbols starting at p
RECURSIVE WordEnd(_, _)
WordEnd(s, p) == IF p <= Len(s) /\ IsWord(s[p]) THEN WordEnd(s, p + 1) ELSE p

NoMatch == [ok |-> FALSE, name |-> << >>, args |-> << >>, start |-> 0, end |-> 0]

\* a greedy (.*) instead: the last [/TOOL]
GreedyClose(s, from) == FindLitLast(s, CLOSE_LIT, from)
\* the first [/TOOL] at or after position from: the end of the non-greedy (.*?)
LazyClose(s, from) == FindLit(s, CLOSE_LIT, from)

\* one attempt of the pattern at position p of s (re.DOTALL: "." is any symbol)
MatchAt(s, p) ==
    LET ws == p + Len(OPEN_LIT)
        we == WordEnd(s, ws)
        as == we + 1
        c  == LazyClose(s, as)
    IN IF /\ HasAt(s, OPEN_LIT, p)
          /\ we > ws
          /\ we <= Len(s)
          /\ s[we] = "]"
          /\ c # 0
       THEN [ok |-> TRUE, name |-> SubSeq(s, ws, we - 1), args |-> SubSeq(s, as, c - 1),
             start |-> p, end |-> c + Len(CLOSE_LIT)]
       ELSE NoMatch

\* re.findall: leftmost matches, scanning on after the end of each match
RECURSIVE FindAll(_, _)
FindAll(s, p) ==
    IF p > Len(s) THEN << >>
    ELSE LET m == MatchAt(s, p)
         IN IF m.ok THEN << m >> \o FindAll(s, m.end) ELSE FindAll(s, p + 1)

\* the key=value branch with the value left untrimmed
RECURSIVE KeyValueArgsUntrimmed(_, _)
KeyValueArgsUntrimmed(pieces, n) ==
    IF n = 0 THEN EmptyDict
    ELSE LET prev == KeyValueArgsUntrimmed(pieces, n - 1)
             pair == pieces[n]
         IN IF Contains(pair, "=")
            THEN LET kv == SplitOnce(pair, "=")
                 IN DictSet(prev, Strip(kv[1]), kv[2])
            ELSE prev

\* the key=value branch: the first n pieces folded into a dict, later keys overwrite
RECURSIVE KeyValueArgs(_, _)
KeyValueArgs(pieces, n) ==
    IF n = 0 THEN EmptyDict
    ELSE LET prev == KeyValueArgs(pieces, n - 1)
             pair == pieces[n]
         IN IF Contains(pair, "=")
            THEN LET kv == SplitOnce(pair, "=")
                 IN DictSet(prev, Strip(kv[1]), Strip(kv[2]))
            ELSE prev

\* the positional branch with write_file split at every "|"
PositionalArgsSplitAll(tool_name, args_text) ==
    IF tool_name = << "read_file" >>
    THEN DictSet(EmptyDict, << "path" >>, Strip(args_text))
    ELSE IF tool_name = << "write_file" >>
    THEN LET parts == Split(args_text, "|")
         IN DictSet(DictSet(EmptyDict, << "path" >>, Strip(parts[1])),
                    << "content" >>, IF Len(parts) > 1 THEN Strip(parts[2]) ELSE << >>)
    ELSE IF tool_name = << "tavily_scrape" >>
    THEN DictSet(EmptyDict, << "url" >>, Strip(args_text))
    ELSE DictSet(EmptyDict, << "query" >>, Strip(args_text))

\* the positional branch, keyed by the tool name
PositionalArgs(tool_name, args_text) ==
    IF tool_name = << "read_file" >>
    THEN DictSet(EmptyDict, << "path" >>, Strip(args_text))
    ELSE IF tool_name = << "write_file" >>
    THEN LET parts == SplitOnce(args_text, "|")
         IN DictSet(DictSet(EmptyDict, << "path" >>, Strip(parts[1])),
                    << "content" >>, IF Len(parts) > 1 THEN Strip(parts[2]) ELSE << >>)
    ELSE IF tool_name \in {<< "web_search" >>, << "calculator" >>, << "count_words" >>,
                           << "tavily_search" >>, << "tavily_scrape" >>,
                           << "tavily_search_scrape" >>, << "deep_research" >>}
    THEN IF tool_name = << "tavily_scrape" >>
         THEN DictSet(EmptyDict, << "url" >>, Strip(args_text))
         ELSE DictSet(EmptyDict, << "query" >>, Strip(args_text))
    ELSE DictSet(EmptyDict, << "query" >>, Strip(args_text))

\* the kwargs of one match
ParseArgs(tool_name, args_text) ==
    IF Contains(args_text, "=")
    THEN LET pieces == Split(args_text, "|") IN KeyValueArgs(pieces, Len(pieces))
    ELSE PositionalArgs(tool_name, args_text)

parse_tool_call_from_text(s) ==
    LET matches == FindAll(s, 1)
    IN [i \in 1..Len(matches) |->
          [tool |-> matches[i].name, args |-> ParseArgs(matches[i].name, matches[i].args)]]

-----------------------------------------------------------------------------
(* The filesystem write_file works on.  A location is the sequence of the  *)
(* names leading to it from the root; a name is a string.                  *)

\* os.getenv("MCP_SAFE_DIR", "./mcp_workspace"): the default
SAFE_DIR == << ".", "/", "mcp_workspace" >>
\* the process's working directory
CWD == << << "work" >> >>
\* the sandbox directory's location: SAFE_DIR seen from CWD
SandboxLoc == << << "work" >>, << "mcp_workspace" >> >>
\* content of the files that exist before any tool runs
OLD == << "old" >>

InitDirs == { << >>, << << "etc" >> >>, CWD }
InitFs ==
    [loc \in { << << "etc" >>, << "passwd" >> >>, << << "work" >>, << "x" >> >>, << << "x" >> >> }
       |-> OLD]

\* identity stand-in for basename: the path is joined unchanged
NoBasename(p) == p
\* os.path.basename (posixpath): p[p.rfind('/') + 1:]
Basename(p) == Drop(p, LastIndexOf(p, "/") + 1)

\* os.path.join(a, b) (posixpath)
PathJoin(a, b) ==
    IF b # << >> /\ b[1] = "/" THEN b
    ELSE IF a = << >> \/ a[Len(a)] = "/" THEN a \o b
    ELSE a \o << "/" >> \o b

\* the kernel's walk of the components comps[i..] from directory cur;
\* ds are the existing directories.  err: a component that must be a
\* directory is none.  isdir: the path names a directory (it ends in "", "."
\* or "..", or in the name of a directory).
RECURSIVE Walk(_, _, _, _)
Walk(cur, comps, i, ds) ==
    LET c == comps[i]
        nxt == IF c = << >> \/ c = << "." >> THEN cur
               ELSE IF c = << ".", "." >>
                    THEN (IF cur = << >> THEN cur ELSE SubSeq(cur, 1, Len(cur) - 1))
                    ELSE Append(cur, c)
        named == ~(c = << >> \/ c = << "." >> \/ c = << ".", "." >>)
    IN IF cur \notin ds THEN [err |-> TRUE, isdir |-> FALSE, loc |-> cur]
       ELSE IF i = Len(comps)
            THEN [err |-> FALSE, isdir |-> (~named) \/ nxt \in ds, loc |-> nxt]
            ELSE Walk(nxt, comps, i + 1, ds)

\* path resolution: absolute paths start at the root, the others at CWD
Resolve(path, ds) ==
    IF path = << >> THEN [err |-> TRUE, isdir |-> FALSE, loc |-> << >>]
    ELSE Walk(IF path[1] = "/" THEN << >> ELSE CWD, Split(path, "/"), 1, ds)

\* os.makedirs(SAFE_DIR, exist_ok=True): fails when a file is in the way
MakeDirs(files, ds) ==
    IF SandboxLoc \in DOMAIN files
    THEN [err |-> TRUE, dirs |-> ds]
    ELSE [err |-> FALSE, dirs |-> ds \cup {SandboxLoc}]

\* safe_path = os.path.join(safe_dir, os.path.basename(path))
SafePath(path) == PathJoin(SAFE_DIR, Basename(path))

\* open(safe_path, 'w'): creates or truncates the file; the offset is 0
OpenForWrite(files, ds, safe_path) ==
    LET r == Resolve(safe_path, ds)
    IN IF r.err \/ r.isdir
       THEN [err |-> TRUE, fs |-> files, loc |-> << >>]
       ELSE [err |-> FALSE, loc |-> r.loc,
             fs |-> [l \in (DOMAIN files) \cup {r.loc} |-> IF l = r.loc THEN << >> ELSE files[l]]]

\* f.write(content) and the close that flushes it: one write at offset 0 of
\* the file as it is by then; what lies beyond the written part stays
WriteAtZero(files, loc, content) ==
    [files EXCEPT ![loc] = content \o Drop(files[loc], Len(content) + 1)]

\* _write_file run without interruption: what a single-threaded caller sees
WriteFileWhole(files, ds, path, content) ==
    LET md == MakeDirs(files, ds)
        op == OpenForWrite(files, md.dirs, SafePath(path))
    IN IF md.err THEN [kind |-> "handler_error", fs |-> files, dirs |-> ds]
       ELSE IF op.err THEN [kind |-> "handler_error", fs |-> files, dirs |-> md.dirs]
       ELSE [kind |-> "ok", fs |-> WriteAtZero(op.fs, op.loc, content), dirs |-> md.dirs]

-----------------------------------------------------------------------------
(* MCPToolRegistry *)

Name(w) == << w >>

DefaultTools ==
    { "read_file", "write_file", "list_directory", "web_search", "calculator",
      "execute_python", "system_info", "get_datetime", "count_words" }
ResearchToolNames ==
    { "tavily_search", "tavily_scrape", "tavily_search_scrape", "deep_research",
      "research_status" }

\* register_tool: the descriptor stored under name (last registration wins)
register_tool(table, name, function) ==
    [n \in (DOMAIN table) \cup {name} |->
        IF n = name THEN [name |-> name, function |-> function] ELSE table[n]]

RECURSIVE RegisterAll(_, _)
RegisterAll(table, names) ==
    IF names = {} THEN table
    ELSE LET w == CHOOSE x \in names : TRUE
         IN RegisterAll(register_tool(table, Name(w), "_" \o w), names \ {w})

\* _register_default_tools: each built-in under its name, handler "_<name>"
RegisterDefaultTools(table) == RegisterAll(table, DefaultTools)

\* _register_research_tools: nothing when the import failed
RegisterResearchTools(table, has) ==
    IF ~has THEN table ELSE RegisterAll(table, ResearchToolNames)

\* MCPToolRegistry.__init__
NewRegistry(has) == RegisterResearchTools(RegisterDefaultTools(EmptyDict), has)

\* the parameters of each handler besides self: required, and with a default
Params(h) ==
    CASE h = "_read_file"      -> [req |-> {Name("path")}, opt |-> {}]
      [] h = "_write_file"     -> [req |-> {Name("path"), Name("content")}, opt |-> {}]
      [] h = "_list_directory" -> [req |-> {}, opt |-> {Name("path")}]
      [] h = "_web_search"     -> [req |-> {Name("query")}, opt |-> {}]
      [] h = "_calculator"     -> [req |-> {Name("expression")}, opt |-> {}]
      [] h = "_execute_python" -> [req |-> {Name("code")}, opt |-> {}]
      [] h = "_system_info"    -> [req |-> {}, opt |-> {}]
      [] h = "_get_datetime"   -> [req |-> {}, opt |-> {}]
      [] h = "_count_words"    -> [req |-> {Name("text")}, opt |-> {}]
      [] h = "_tavily_search"  ->
            [req |-> {Name("query")}, opt |-> {Name("max_age_days"), Name("num_results")}]
      [] h = "_tavily_scrape"  ->
            [req |-> {Name("url")}, opt |-> {Name("only_main_content")}]
      [] h = "_tavily_search_scrape" ->
            [req |-> {Name("query")}, opt |-> {Name("max_age_days")}]
      [] h = "_deep_research"  ->
            [req |-> {Name("query")}, opt |-> {Name("max_age_days")}]
      [] h = "_research_status" -> [req |-> {}, opt |-> {}]

\* Python's binding of **kwargs to a bound method's parameters: the TypeError
\* it raises, or "none"
BindError(h, kwargs) ==
    LET ps == Params(h)
    IN IF \E k \in DOMAIN kwargs : k \notin ps.req \cup ps.opt
       THEN "TypeError: got an unexpected keyword argument"
       ELSE IF \E k \in ps.req : k \notin DOMAIN kwargs
       THEN "TypeError: missing required positional argument"
       ELSE "none"

\* The ResearchTools method each research handler delegates to
ClientMethod(h) ==
    CASE h = "_tavily_search" -> "search"
      [] h = "_tavily_scrape" -> "scrape"
      [] h = "_tavily_search_scrape" -> "search_and_scrape"
      [] h = "_deep_research" -> "deep_research"
      [] h = "_research_status" -> "get_status"

\* What the environment does to a handler's body:
\*   "ok"        files, network and upstream answer as hoped
\*   "fail"      the I/O fails, or the upstream answers with an error
\*   "malformed" the upstream answers 200 with a result whose content is null
Envs == {"ok", "fail", "malformed"}

\* The body of a handler, its arguments bound.  raised: the exception that
\* leaves the handler ("none": it returned a string of the given kind).
HandlerBody(h, kwargs, env, has, key, files, ds) ==
    LET same == [raised |-> "none", kind |-> "ok", calls |-> << >>, fs |-> files, dirs |-> ds]
    IN CASE h = "_write_file" ->
              LET w == WriteFileWhole(files, ds, kwargs[Name("path")], kwargs[Name("content")])
              IN [same EXCEPT !.kind = w.kind, !.fs = w.fs, !.dirs = w.dirs]
         [] h = "_read_file" ->
              LET r == Resolve(kwargs[Name("path")], ds)
              IN [same EXCEPT !.kind = IF (~r.err) /\ r.loc \in DOMAIN files /\ env = "ok"
                                       THEN "ok" ELSE "handler_error"]
         [] h = "_list_directory" ->
              LET r == Resolve(IF Name("path") \in DOMAIN kwargs
                               THEN kwargs[Name("path")] ELSE << "." >>, ds)
              IN [same EXCEPT !.kind = IF (~r.err) /\ r.isdir /\ env = "ok"
                                       THEN "ok" ELSE "handler_error"]
         [] h \in {"_web_search", "_calculator", "_execute_python"} ->
              [same EXCEPT !.kind = IF env = "ok" THEN "ok" ELSE "handler_error"]
         [] h \in {"_system_info", "_get_datetime", "_count_words"} -> same
         [] h = "_research_status" ->
              IF ~has THEN [same EXCEPT !.kind = "not_available"]
              ELSE [same EXCEPT !.calls = << ClientMethod(h) >>]
         [] OTHER ->
              \* _tavily_search, _tavily_scrape, _tavily_search_scrape, _deep_research
              IF ~has THEN [same EXCEPT !.kind = "not_available"]
              ELSE IF key = << >>
                   \* the client's mock mode: always a success response
                   THEN [same EXCEPT !.calls = << ClientMethod(h) >>]
              ELSE IF env = "fail" /\ h # "_deep_research"
                   \* a failure response; deep_research answers success regardless
                   THEN [same EXCEPT !.kind = "handler_error", !.calls = << ClientMethod(h) >>]
              ELSE IF env = "malformed" /\ h = "_tavily_scrape"
                   \* _extract_title(None) raises inside scrape's try
                   THEN [same EXCEPT !.kind = "handler_error", !.calls = << ClientMethod(h) >>]
              ELSE IF env = "malformed" /\ h \in {"_tavily_search", "_deep_research"}
                   \* r.get('content', '')[:150] on a null content
                   THEN [same EXCEPT !.raised = "TypeError: 'NoneType' object is not subscriptable",
                                     !.calls = << ClientMethod(h) >>]
              ELSE [same EXCEPT !.calls = << ClientMethod(h) >>]

\* except Exception as e: the error string naming the tool and the message
OnHandlerException(name, kwargs, h, e, body) ==
    [kind |-> "exec_error", tool |-> name, args |-> kwargs, handler |-> h, msg |-> e,
     ran_body |-> body]

\* execute_tool(name, **kwargs) as the caller sees it.  kind "raised": an
\* exception reached the caller; every other kind is a returned string.
execute_tool(table, name, kwargs, env, has, key, files, ds) ==
    LET quiet == [calls |-> << >>, fs |-> files, dirs |-> ds]
        out(kind, h, msg, body) ==
            [kind |-> kind, tool |-> name, args |-> kwargs, handler |-> h, msg |-> msg,
             ran_body |-> body]
    IN IF \E k \in DOMAIN kwargs : k \in {Name("name"), Name("self")}
       \* the keyword collides with execute_tool's own parameter: Python raises
       \* at the call, before the body and its try
       THEN quiet @@
            [outcome |-> out("raised", "none",
                             "TypeError: got multiple values for argument", FALSE)]
       ELSE IF name \notin DOMAIN table
       THEN quiet @@ [outcome |-> out("not_found", "none", "none", FALSE)]
       ELSE LET h == table[name].function
                be == BindError(h, kwargs)
            IN IF be # "none"
               THEN quiet @@ [outcome |-> OnHandlerException(name, kwargs, h, be, FALSE)]
               ELSE LET b == HandlerBody(h, kwargs, env, has, key, files, ds)
                        eff == [calls |-> b.calls, fs |-> b.fs, dirs |-> b.dirs]
                    IN IF b.raised # "none"
                       THEN eff @@ [outcome |-> OnHandlerException(name, kwargs, h, b.raised, TRUE)]
                       ELSE eff @@ [outcome |-> out(b.kind, h, "none", TRUE)]

-----------------------------------------------------------------------------
(* The texts the pipeline is run on. *)

\* "[TOOL:<t>]"
OpenMarker(t) == OPEN_LIT \o t \o << "]" >>
\* one call marker
Marker(t, a) == OpenMarker(t) \o a \o CLOSE_LIT

\* texts built from the pieces of the grammar: markers, stray parts, newlines
StructFrags ==
    { OpenMarker(Name("calculator")), OPEN_LIT, CLOSE_LIT, << "a" >>, << "]" >>, << "\n" >> }
StructTexts == { Concat(fr) : fr \in SeqsUpTo(StructFrags, MaxFrags) }

\* one call with every argument segment over a small alphabet
ArgSyms == { "=", "|", " ", "k", "v" }
ArgTools == { Name("read_file"), Name("write_file"), Name("tavily_scrape"),
              Name("calculator"), Name("get_datetime"), Name("zz") }
ArgTexts == { Marker(t, a) : t \in ArgTools, a \in SeqsUpTo(ArgSyms, MaxArgLen) }

\* one call of any tool (or of none) with key=value pairs, or one positional piece
KeyWords == { "name", "self", "path", "content", "query", "text", "expression", "url" }
Pieces == { << k, "=", "v" >> : k \in KeyWords } \cup { << "v" >> }
CallTools == { Name(w) : w \in DefaultTools \cup ResearchToolNames \cup {"zz"} }
CallTexts ==
    { Marker(t, Join(ps, << "|" >>)) : t \in CallTools, ps \in SeqsUpTo(Pieces, MaxPairs) }

\* batches of two calls
BatchCalls ==
    { Marker(Name(w), a) :
        w \in {"calculator", "count_words", "tavily_search", "get_datetime", "zz"},
        a \in { << >>, << "v" >>, << "text", "=", "v" >>, << "name", "=", "v" >> } }
BatchTexts == { c1 \o << "\n" >> \o c2 : c1 \in BatchCalls, c2 \in BatchCalls }

\* a configured credential
KEY == << "tvly" >>
\* (import of research_tools succeeded, TAVILY_API_KEY)
Configs == { [has |-> TRUE, key |-> KEY], [has |-> TRUE, key |-> << >>],
             [has |-> FALSE, key |-> << >>] }

-----------------------------------------------------------------------------
(* The pipeline: text -> parser -> execute_tool per request. *)

\* concurrent write_file calls are numbered 1..MaxCalls
Writers == 1..MaxCalls
NoReq == [path |-> << >>, content |-> << >>]

InitPipeline(texts, configs) ==
    /\ text \in texts
    /\ \E c \in configs : HAS_RESEARCH_TOOLS = c.has /\ tavily_api_key = c.key
    /\ tools = NewRegistry(HAS_RESEARCH_TOOLS)
    /\ tool_calls = << >>
    /\ pc = "start"
    /\ next_call = 1
    /\ outcomes = << >>
    /\ client_calls = << >>

InitFiles ==
    /\ fs = InitFs
    /\ dirs = InitDirs
    /\ wpc = [w \in Writers |-> "idle"]
    /\ wreq = [w \in Writers |-> NoReq]
    /\ wfd = [w \in Writers |-> << >>]
    /\ wres = [w \in Writers |-> "none"]
    /\ ncalls = 0

\* no client method has answered yet
Blank ==
    [method |-> "none", success |-> FALSE, mock |-> FALSE, results |-> << >>, total |-> 0,
     filtered_by_date |-> FALSE, all_results |-> << >>,
     max_age_days |-> 0, num_results |-> 0, status |-> "none", sources |-> << >>,
     posts |-> << >>]

InitSearch ==
    /\ upstream = << >>
    /\ response = Blank

\* _calculator has not been called
NotCalled == [kind |-> "none", evaluated |-> FALSE, text |-> << >>]
InitNoCalc ==
    /\ expression = << >>
    /\ calc = NotCalled

\* the caller parses the generated text
Parse ==
    /\ pc = "start"
    /\ tool_calls' = parse_tool_call_from_text(text)
    /\ pc' = "parsed"
    /\ UNCHANGED << calcVars, text, next_call, outcomes, tools, HAS_RESEARCH_TOOLS, tavily_api_key,
                    client_calls, writeVars, searchVars >>

\* the caller runs the next request of the batch:
\*   mcp_registry.execute_tool(call["tool"], **call["args"])
\* an exception that reaches the caller ends the batch
Execute(env) ==
    /\ pc = "parsed"
    /\ next_call <= Len(tool_calls)
    /\ LET req == tool_calls[next_call]
           r == execute_tool(tools, req.tool, req.args, env, HAS_RESEARCH_TOOLS,
                             tavily_api_key, fs, dirs)
       IN /\ outcomes' = Append(outcomes, r.outcome)
          /\ client_calls' = client_calls \o r.calls
          /\ fs' = r.fs
          /\ dirs' = r.dirs
          /\ IF r.outcome.kind = "raised"
             THEN pc' = "crashed" /\ next_call' = next_call
             ELSE pc' = pc /\ next_call' = next_call + 1
    /\ UNCHANGED << calcVars, text, tool_calls, tools, HAS_RESEARCH_TOOLS, tavily_api_key,
                    wpc, wreq, wfd, wres, ncalls, searchVars >>

Next == Parse \/ \E env \in Envs : Execute(env)

\* the registry under every configuration, on single calls and batches
Init ==
    InitPipeline(CallTexts \cup BatchTexts, Configs) /\ InitFiles /\ InitSearch /\ InitNoCalc
Spec == Init /\ [][Next]_vars

\* the parser on every text of the bounded grammar
InitParser ==
    /\ InitPipeline(StructTexts \cup ArgTexts, {[has |-> TRUE, key |-> KEY]})
    /\ InitFiles /\ InitSearch /\ InitNoCalc
SpecParser == InitParser /\ [][Next]_vars

-----------------------------------------------------------------------------
(* write_file, statement by statement.  Each call in flight has its own   *)
(* position: "idle" -> "open" -> "write" -> "done".                        *)

WCall(w, path, content) ==
    /\ wpc[w] = "idle"
    /\ ncalls < MaxCalls
    /\ ncalls' = ncalls + 1
    /\ wreq' = [wreq EXCEPT ![w] = [path |-> path, content |-> content]]
    /\ wfd' = [wfd EXCEPT ![w] = << >>]
    /\ LET md == MakeDirs(fs, dirs)
       IN /\ dirs' = md.dirs
          /\ wpc' = [wpc EXCEPT ![w] = IF md.err THEN "done" ELSE "open"]
          /\ wres' = [wres EXCEPT ![w] = IF md.err THEN "handler_error" ELSE "none"]
    /\ UNCHANGED << calcVars, fs, text, tool_calls, pc, next_call, outcomes, tools,
                    HAS_RESEARCH_TOOLS, tavily_api_key, client_calls, searchVars >>

WOpen(w) ==
    /\ wpc[w] = "open"
    /\ LET op == OpenForWrite(fs, dirs, SafePath(wreq[w].path))
       IN /\ fs' = op.fs
          /\ wfd' = [wfd EXCEPT ![w] = op.loc]
          /\ wpc' = [wpc EXCEPT ![w] = IF op.err THEN "done" ELSE "write"]
          /\ wres' = [wres EXCEPT ![w] = IF op.err THEN "handler_error" ELSE "none"]
    /\ UNCHANGED << calcVars, dirs, wreq, ncalls, text, tool_calls, pc, next_call, outcomes, tools,
                    HAS_RESEARCH_TOOLS, tavily_api_key, client_calls, searchVars >>

WFlush(w) ==
    /\ wpc[w] = "write"
    /\ fs' = WriteAtZero(fs, wfd[w], wreq[w].content)
    /\ wpc' = [wpc EXCEPT ![w] = "done"]
    /\ wres' = [wres EXCEPT ![w] = "ok"]
    /\ UNCHANGED << calcVars, dirs, wreq, wfd, ncalls, text, tool_calls, pc, next_call, outcomes,
                    tools, HAS_RESEARCH_TOOLS, tavily_api_key, client_calls, searchVars >>

\* the caller takes the returned string; the next call may start
WReturn(w) ==
    /\ wpc[w] = "done"
    /\ wpc' = [wpc EXCEPT ![w] = "idle"]
    /\ wreq' = [wreq EXCEPT ![w] = NoReq]
    /\ wfd' = [wfd EXCEPT ![w] = << >>]
    /\ wres' = [wres EXCEPT ![w] = "none"]
    /\ UNCHANGED << calcVars, fs, dirs, ncalls, text, tool_calls, pc, next_call, outcomes, tools,
                    HAS_RESEARCH_TOOLS, tavily_api_key, client_calls, searchVars >>

\* the registry constructed, no text to run
InitIdle ==
    /\ text = << >>
    /\ HAS_RESEARCH_TOOLS = TRUE
    /\ tavily_api_key = KEY
    /\ tools = NewRegistry(TRUE)
    /\ tool_calls = << >>
    /\ pc = "start"
    /\ next_call = 1
    /\ outcomes = << >>
    /\ client_calls = << >>

\* every path over a small alphabet, and the paths the documentation names
PathSyms == { "/", ".", "x" }
LongPaths ==
    { << ".", ".", "/", ".", ".", "/", "etc", "/", "passwd" >>,
      << "/", "etc", "/", "passwd" >>,
      << "a", "/", "x", ".", "txt" >>,
      << "b", "/", "x", ".", "txt" >> }
PathArgs == SeqsUpTo(PathSyms, MaxPathLen) \cup LongPaths
FRESH == << "new" >>

\* write_file calls one after the other, on every path
NextSandbox ==
    \/ \E p \in PathArgs : WCall(1, p, FRESH)
    \/ WOpen(1)
    \/ WFlush(1)
    \/ WReturn(1)
InitSandbox == InitIdle /\ InitFiles /\ InitSearch /\ InitNoCalc
SpecSandbox == InitSandbox /\ [][NextSandbox]_vars

\* write_file calls run concurrently by the caller, some on one basename
SharedPaths == { << "a", "/", "x", ".", "txt" >>, << "b", "/", "x", ".", "txt" >>, << "y" >> }
Contents == { << "c1", "c2" >>, << "d1" >> }
NextWrite ==
    \E w \in Writers :
        \/ \E p \in SharedPaths, c \in Contents : WCall(w, p, c)
        \/ WOpen(w)
        \/ WFlush(w)
SpecWrite == InitSandbox /\ [][NextWrite]_vars

-----------------------------------------------------------------------------
(* ResearchTools.  A SearchResult is [url, published_date]; a field the   *)
(* upstream left out has present = FALSE (dict.get gives None).  A         *)
(* published_date string is "" (kind "empty"), text that is no ISO date    *)
(* (kind "bad"), or an ISO date of a given day with a suffix: none, "Z" or *)
(* "+00:00".                                                               *)

\* datetime.now(), in days; naive (no tzinfo)
NowDay == MaxDay

AbsentUrl == [present |-> FALSE, val |-> << >>]
Url(v) == [present |-> TRUE, val |-> v]
AbsentDate == [kind |-> "absent", day |-> 0, suffix |-> ""]
EmptyDate == [kind |-> "empty", day |-> 0, suffix |-> ""]
BadDate == [kind |-> "bad", day |-> 0, suffix |-> ""]
IsoDate(d, sfx) == [kind |-> "iso", day |-> d, suffix |-> sfx]

\* pub_date.replace("Z", "+00:00")
ReplaceZ(date) == IF date.suffix = "Z" THEN [date EXCEPT !.suffix = "+00:00"] ELSE date

\* datetime.fromisoformat: a ValueError for text that is no ISO date; an
\* offset in the text makes the datetime aware
FromIsoFormat(date) ==
    IF date.kind # "iso"
    THEN [raised |-> TRUE, day |-> 0, aware |-> FALSE]
    ELSE [raised |-> FALSE, day |-> date.day, aware |-> date.suffix # ""]

\* result_date >= cutoff_date, cutoff_date naive: comparing an aware with a
\* naive datetime raises TypeError
CompareGe(dt, cutoff) ==
    IF dt.aware THEN [raised |-> TRUE, value |-> FALSE]
    ELSE [raised |-> FALSE, value |-> dt.day >= cutoff]

\* the body of the filter loop: whether result is appended to filtered_results
KeepResult(result, cutoff) ==
    LET pub_date == result.published_date
    IN IF pub_date.kind \in {"absent", "empty"}
       \* "if pub_date:" is false for None and for ""
       THEN TRUE
       ELSE LET dt == FromIsoFormat(ReplaceZ(pub_date))
            IN IF dt.raised THEN TRUE   \* except: keep
               ELSE LET ge == CompareGe(dt, cutoff)
                    IN IF ge.raised THEN TRUE   \* except: keep
                       ELSE ge.value

RECURSIVE FilterByDate(_, _)
FilterByDate(results, cutoff) ==
    IF results = << >> THEN << >>
    ELSE (IF KeepResult(Head(results), cutoff) THEN << Head(results) >> ELSE << >>)
         \o FilterByDate(Tail(results), cutoff)

\* _mock_search: one synthetic result, published a week ago
MockResult == [url |-> Url(<< "example" >>), published_date |-> IsoDate(NowDay - 7, "")]

\* requests.post(f"{self.tavily_base}/search", ...): the endpoint of the request
SEARCH_ENDPOINT == << "/", "search" >>

\* search(query, max_age_days, num_results): status is the upstream's answer,
\* "200", another status, or "exc" for a failed connection
search(key, data, max_age_days, num_results, status) ==
    LET base == [Blank EXCEPT !.method = "search", !.max_age_days = max_age_days,
                              !.num_results = num_results, !.status = status]
    IN IF key = << >>
       THEN [base EXCEPT !.success = TRUE, !.mock = TRUE, !.results = << MockResult >>,
                         !.total = 1, !.status = "none"]
       ELSE IF status = "200"
       THEN LET cutoff_date == NowDay - max_age_days
                filtered_results == FilterByDate(data, cutoff_date)
            IN [base EXCEPT !.success = TRUE,
                            !.results = Take(filtered_results, num_results),
                            !.total = Len(filtered_results),
                            !.filtered_by_date = Len(filtered_results) < Len(data),
                            !.posts = << SEARCH_ENDPOINT >>]
       ELSE [base EXCEPT !.posts = << SEARCH_ENDPOINT >>]

\* num_results of the search deep_research issues
DeepNumResults == 10
\* cap of deep_research's unique list
UniqueCap == 15

\* the loop with the seen_urls test left out
RECURSIVE UniqueNoSeen(_, _)
UniqueNoSeen(all_results, seen_urls) ==
    IF all_results = << >> THEN << >>
    ELSE LET r == Head(all_results)
             url == r.url
         IN IF url.present /\ url.val # << >>
            THEN << r >> \o UniqueNoSeen(Tail(all_results), seen_urls \cup {url.val})
            ELSE UniqueNoSeen(Tail(all_results), seen_urls)

\* the dedup loop: "if url and url not in seen_urls"
RECURSIVE UniqueResults(_, _)
UniqueResults(all_results, seen_urls) ==
    IF all_results = << >> THEN << >>
    ELSE LET r == Head(all_results)
             url == r.url
         IN IF url.present /\ url.val # << >> /\ url.val \notin seen_urls
            THEN << r >> \o UniqueResults(Tail(all_results), seen_urls \cup {url.val})
            ELSE UniqueResults(Tail(all_results), seen_urls)

\* deep_research(query, sources, max_age_days)
deep_research(key, data, sources, max_age_days, status) ==
    LET tavily_results == search(key, data, max_age_days, DeepNumResults, status)
        all_results == IF Contains(sources, "tavily") /\ tavily_results.success
                       THEN tavily_results.results ELSE << >>
        unique_results == UniqueResults(all_results, {})
    IN [Blank EXCEPT !.method = "deep_research", !.success = TRUE,
                     !.mock = FALSE,
                     !.results = Take(unique_results, UniqueCap),
                     !.total = Len(unique_results),
                     !.all_results = all_results,
                     !.max_age_days = max_age_days, !.sources = sources,
                     !.status = IF key = << >> \/ ~Contains(sources, "tavily")
                                THEN "none" ELSE status,
                     !.posts = IF Contains(sources, "tavily")
                               THEN tavily_results.posts ELSE << >>]

\* The client keeps nothing between calls (upstream and credential are
\* fixed for a run), so a behaviour makes one call: every call of a longer
\* run answers as the same call does here.
Statuses == {"200", "500", "exc"}
SourceLists == { << "tavily" >>, << "serper" >> }

Search(max_age_days, num_results, status) ==
    /\ response.method = "none"
    /\ response' = search(tavily_api_key, upstream, max_age_days, num_results, status)
    /\ UNCHANGED << calcVars, upstream, text, tool_calls, pc, next_call, outcomes, tools,
                    HAS_RESEARCH_TOOLS, tavily_api_key, client_calls, writeVars >>

DeepResearch(sources, max_age_days, status) ==
    /\ response.method = "none"
    /\ response' = deep_research(tavily_api_key, upstream, sources, max_age_days, status)
    /\ UNCHANGED << calcVars, upstream, text, tool_calls, pc, next_call, outcomes, tools,
                    HAS_RESEARCH_TOOLS, tavily_api_key, client_calls, writeVars >>

\* what the upstream may answer with
Dates ==
    {AbsentDate, EmptyDate, BadDate}
        \cup {IsoDate(d, sfx) : d \in 0..MaxDay, sfx \in {"", "Z", "+00:00"}}
Urls == {AbsentUrl, Url(<< >>), Url(<< "u1" >>), Url(<< "u2" >>)}
ResultChoices ==
    {[url |-> Url(<< "u1" >>), published_date |-> d] : d \in Dates}
        \cup {[url |-> u, published_date |-> AbsentDate] : u \in Urls}

NextSearch ==
    \/ \E ma \in 0..MaxDay, n \in 0..MaxResults, st \in Statuses : Search(ma, n, st)
    \/ \E src \in SourceLists, ma \in 0..MaxDay, st \in Statuses : DeepResearch(src, ma, st)

\* the client with a credential and any upstream, or without one (mock mode)
InitClient ==
    /\ text = << >>
    /\ HAS_RESEARCH_TOOLS = TRUE
    /\ tools = NewRegistry(TRUE)
    /\ tool_calls = << >>
    /\ pc = "start"
    /\ next_call = 1
    /\ outcomes = << >>
    /\ client_calls = << >>
    /\ InitFiles
    /\ InitNoCalc
    /\ response = Blank
    /\ \/ tavily_api_key = KEY /\ upstream \in SeqsUpTo(ResultChoices, MaxResults)
       \/ tavily_api_key = << >> /\ upstream = << >>
SpecSearch == InitClient /\ [][NextSearch]_vars

-----------------------------------------------------------------------------
(* scrape and search_and_scrape.  A text the upstream sends is modelled by *)
(* its length; a JSON field is absent, null, or a text.                    *)

\* bound: upstream results of the search search_and_scrape issues
MaxHits == 6

Absent == [kind |-> "absent", len |-> 0]
Null == [kind |-> "null", len |-> 0]
Str(n) == [kind |-> "str", len |-> n]

\* num_results of the search search_and_scrape issues
SasNumResults == 5
\* search_results.get("results", [])[:3]
SasMaxScrapes == 3
\* scrape_result.get("content", "")[:2000]
ContentCap == 2000

SCRAPE_ENDPOINT == << "/", "scrape" >>

\* what the upstream may answer a scrape with: a status and, for 200, the
\* "content" and "markdown" fields of the body; "exc" is a failed connection
ScrapeAnswer(st, c, m) == [status |-> st, content |-> c, markdown |-> m]
ScrapeAnswers ==
    { ScrapeAnswer("200", Str(1), Absent),
      ScrapeAnswer("200", Str(ContentCap + 1), Absent),
      ScrapeAnswer("200", Null, Absent),
      ScrapeAnswer("200", Absent, Str(ContentCap + 1)),
      ScrapeAnswer("200", Absent, Null),
      ScrapeAnswer("500", Absent, Absent),
      ScrapeAnswer("exc", Absent, Absent) }

\* no request reached the upstream
NoAnswer == ScrapeAnswer("none", Absent, Absent)

\* dict.get(key, default) on a JSON field
Get(field, default) == IF field.kind = "absent" THEN default ELSE field

\* _extract_title(content): content.strip() raises on a value that is no text
ExtractTitleRaises(content) == content.kind # "str"

\* a scrape that always goes to the network
NeverMock(key) == FALSE
\* "if not self.tavily_api_key": the mock path
NoCredential(key) == key = << >>

\* _mock_scrape: a synthetic page, longer than the text around the url
MOCK_PAGE == Str(200)

\* the response dict of scrape; a failure dict has no "content" key
ScrapeFailure(url, answer) ==
    [method |-> "scrape", success |-> FALSE, mock |-> FALSE, url |-> url,
     content |-> Absent, posts |-> << SCRAPE_ENDPOINT >>, answer |-> answer]

\* scrape(url): answer is what the upstream does with the request
scrape(key, url, answer) ==
    IF NoCredential(key)
    THEN [method |-> "scrape", success |-> TRUE, mock |-> TRUE, url |-> url,
          content |-> MOCK_PAGE, posts |-> << >>, answer |-> NoAnswer]
    ELSE IF answer.status = "200"
    THEN LET content == Get(answer.content, Get(answer.markdown, Str(0)))
         IN IF ExtractTitleRaises(Get(answer.content, Str(0)))
            \* except Exception: the failure dict
            THEN ScrapeFailure(url, answer)
            ELSE [method |-> "scrape", success |-> TRUE, mock |-> FALSE, url |-> url,
                  content |-> content, posts |-> << SCRAPE_ENDPOINT >>, answer |-> answer]
    ELSE ScrapeFailure(url, answer)

\* value[:n] on a text; slicing None raises TypeError
Slice(value, n) ==
    IF value.kind # "str" THEN [raised |-> TRUE, value |-> value]
    ELSE [raised |-> FALSE, value |-> Str(IF value.len < n THEN value.len ELSE n)]

\* the scrape loop over results[i..]: answers[i] is the upstream's answer to
\* the i-th scrape.  calls: the scrape calls made, in order; raised: the
\* TypeError of the slice left the loop
RECURSIVE ScrapeLoop(_, _, _, _)
ScrapeLoop(key, results, answers, i) ==
    IF i > Len(results) THEN [raised |-> FALSE, scraped |-> << >>, calls |-> << >>]
    ELSE LET url == results[i].url
             scrape_result == scrape(key, url, answers[i])
             cut == Slice(Get(scrape_result.content, Str(0)), ContentCap)
         IN IF cut.raised
            THEN [raised |-> TRUE, scraped |-> << >>, calls |-> << scrape_result >>]
            ELSE LET rest == ScrapeLoop(key, results, answers, i + 1)
                     page == [url |-> url, content |-> cut.value,
                              success |-> scrape_result.success]
                 IN [raised |-> rest.raised,
                     scraped |-> << page >> \o rest.scraped,
                     calls |-> << scrape_result >> \o rest.calls]

\* the posts of a sequence of client calls, in order
RECURSIVE PostsOf(_)
PostsOf(calls) == IF calls = << >> THEN << >> ELSE Head(calls).posts \o PostsOf(Tail(calls))

\* search_and_scrape(query, max_age_days).  returned: the dict handed back
\* (the search's failure response, or the combined one); raised: an
\* exception left the method instead
search_and_scrape(key, data, max_age_days, status, answers) ==
    LET search_results == search(key, data, max_age_days, SasNumResults, status)
        loop == ScrapeLoop(key, Take(search_results.results, SasMaxScrapes), answers, 1)
        base == [method |-> "search_and_scrape", raised |-> FALSE,
                 search_calls |-> << search_results >>, scrape_calls |-> << >>,
                 returned |-> search_results, posts |-> search_results.posts]
    IN IF ~search_results.success THEN base
       ELSE [base EXCEPT
               !.raised = loop.raised,
               !.scrape_calls = loop.calls,
               !.posts = search_results.posts \o PostsOf(loop.calls),
               !.returned = [success |-> TRUE,
                             search_results |-> search_results.results,
                             scraped_pages |-> loop.scraped,
                             total_scraped |-> Len(loop.scraped)]]

\* the scrapes search_and_scrape sets out to make for a search response
PlannedScrapes(key, data, max_age_days, status) ==
    LET r == search(key, data, max_age_days, SasNumResults, status)
    IN IF r.success THEN Len(Take(r.results, SasMaxScrapes)) ELSE 0

Scrape(url, answer) ==
    /\ response.method = "none"
    /\ response' = scrape(tavily_api_key, url, answer)
    /\ UNCHANGED << calcVars, upstream, text, tool_calls, pc, next_call, outcomes, tools,
                    HAS_RESEARCH_TOOLS, tavily_api_key, client_calls, writeVars >>

SearchAndScrape(max_age_days, status) ==
    /\ response.method = "none"
    /\ \E answers \in [1..PlannedScrapes(tavily_api_key, upstream, max_age_days, status)
                          -> ScrapeAnswers] :
          response' = search_and_scrape(tavily_api_key, upstream, max_age_days, status, answers)
    /\ UNCHANGED << calcVars, upstream, text, tool_calls, pc, next_call, outcomes, tools,
                    HAS_RESEARCH_TOOLS, tavily_api_key, client_calls, writeVars >>

\* upstream results that differ in their url alone
Hits == {[url |-> u, published_date |-> AbsentDate] : u \in {Url(<< "u1" >>), Url(<< "u2" >>)}}
HitLists ==
    SeqsUpTo(Hits, MaxHits)
        \cup {<< [url |-> AbsentUrl, published_date |-> AbsentDate],
                 [url |-> Url(<< "u1" >>), published_date |-> IsoDate(0, "")] >>}

NextScrape ==
    \/ \E u \in Urls, a \in ScrapeAnswers : Scrape(u, a)
    \/ \E ma \in {0, MaxDay}, st \in Statuses : SearchAndScrape(ma, st)
    \/ \E ma \in {0, MaxDay}, n \in {0, 1}, st \in Statuses : Search(ma, n, st)
    \/ \E src \in SourceLists, st \in Statuses : DeepResearch(src, MaxDay, st)

\* the client with a credential and any upstream, or without one (mock mode)
InitScrape ==
    /\ text = << >>
    /\ HAS_RESEARCH_TOOLS = TRUE
    /\ tools = NewRegistry(TRUE)
    /\ tool_calls = << >>
    /\ pc = "start"
    /\ next_call = 1
    /\ outcomes = << >>
    /\ client_calls = << >>
    /\ InitFiles
    /\ InitNoCalc
    /\ response = Blank
    /\ \/ tavily_api_key = KEY /\ upstream \in HitLists
       \/ tavily_api_key = << >> /\ upstream = << >>
SpecScrape == InitScrape /\ [][NextScrape]_vars

-----------------------------------------------------------------------------
(* _calculator.  An expression is a sequence of characters.  A value of    *)
(* eval is an int, a float, the empty tuple "()", the Ellipsis "...", or a  *)
(* number the model does not follow ("other": beyond ExactLimit,           *)
(* irrational or complex); ints and floats are kept as the fraction        *)
(* num/den in lowest terms.                                                *)

\* bound: characters of a generated expression
MaxExprLen == 3

\* numbers are followed exactly up to this size
ExactLimit == 30000

DigitChars == << "0", "1", "2", "3", "4", "5", "6", "7", "8", "9" >>
IsDigit(c) == \E n \in 1..10 : DigitChars[n] = c
DigitVal(c) == (CHOOSE n \in 1..10 : DigitChars[n] = c) - 1

\* allowed_chars = set("0123456789+-*/().^ ")
allowed_chars ==
    {DigitChars[n] : n \in 1..10} \cup {"+", "-", "*", "/", "(", ")", ".", "^", " "}
\* c.isspace(), on the whitespace the expressions hold
IsSpace(c) == c = " "

Abs(n) == IF n < 0 THEN -n ELSE n
RECURSIVE Gcd(_, _)
Gcd(a, b) == IF b = 0 THEN a ELSE Gcd(b, a % b)

TUPLE == [t |-> "tuple", num |-> 0, den |-> 1]
ELLIPSIS == [t |-> "ellipsis", num |-> 0, den |-> 1]
\* a value arithmetic is defined on only in part (tuple) or not at all
IsObj(v) == v.t \in {"tuple", "ellipsis"}
INEXACT == [t |-> "other", num |-> 0, den |-> 1]
\* an exception raised while evaluating
ERR == [t |-> "err", num |-> 0, den |-> 1]
IntVal(n) == [t |-> "int", num |-> n, den |-> 1]

IsNum(v) == v.t \in {"int", "float"}
IsZero(v) == IsNum(v) /\ v.num = 0
\* the type of an arithmetic result: float as soon as one operand is
NumType(a, b) == IF a.t = "int" /\ b.t = "int" THEN "int" ELSE "float"

\* num/den (den # 0) in lowest terms with a positive denominator
Norm(t, num, den) ==
    LET g == Gcd(Abs(num), Abs(den))
        n == (IF den < 0 THEN -num ELSE num) \div g
        d == Abs(den) \div g
    IN IF Abs(n) > ExactLimit \/ d > ExactLimit THEN INEXACT
       ELSE [t |-> t, num |-> n, den |-> d]

\* a + b and a - b (sign = 1 or -1)
Add(a, b, sign) ==
    IF a.t = "tuple" /\ b.t = "tuple" /\ sign = 1 THEN TUPLE
    ELSE IF IsObj(a) \/ IsObj(b) THEN ERR
    ELSE IF a.t = "other" \/ b.t = "other" THEN INEXACT
    ELSE Norm(NumType(a, b), a.num * b.den + sign * b.num * a.den, a.den * b.den)

\* a * b
Mul(a, b) ==
    IF (a.t = "tuple" /\ b.t = "int") \/ (a.t = "int" /\ b.t = "tuple") THEN TUPLE
    ELSE IF IsObj(a) \/ IsObj(b) THEN ERR
    ELSE IF a.t = "other" \/ b.t = "other" THEN INEXACT
    ELSE Norm(NumType(a, b), a.num * b.num, a.den * b.den)

\* a / b: always a float; ZeroDivisionError
TrueDiv(a, b) ==
    IF IsObj(a) \/ IsObj(b) \/ IsZero(b) THEN ERR
    ELSE IF a.t = "other" \/ b.t = "other" THEN INEXACT
    ELSE Norm("float", a.num * b.den, a.den * b.num)

\* a // b: the floor of the quotient.  With an operand that is no whole
\* number and a quotient that is one, the rounding of the floats decides
\* between the quotient and the number below it (2 // .2 is 9.0)
FloorDiv(a, b) ==
    IF IsObj(a) \/ IsObj(b) \/ IsZero(b) THEN ERR
    ELSE IF a.t = "other" \/ b.t = "other" THEN INEXACT
    ELSE LET n == a.num * b.den
             d == a.den * b.num
         IN IF (a.den # 1 \/ b.den # 1) /\ n % Abs(d) = 0 THEN INEXACT
            ELSE Norm(NumType(a, b), (IF d < 0 THEN -n ELSE n) \div Abs(d), 1)

\* acc * a ** e by repeated multiplication, given up beyond ExactLimit
RECURSIVE PowAcc(_, _, _)
PowAcc(a, e, acc) ==
    IF e = 0 \/ acc.t = "other" THEN acc ELSE PowAcc(a, e - 1, Mul(acc, a))

\* a ** e for an integer e >= 0
PowNat(a, e) ==
    IF e = 0 THEN IntVal(1)
    ELSE IF a.num = 0 THEN a
    ELSE IF Abs(a.num) = 1 /\ a.den = 1
    THEN [a EXCEPT !.num = IF a.num = 1 \/ e % 2 = 0 THEN 1 ELSE -1]
    ELSE PowAcc(a, e, IntVal(1))

\* a ** b
Pow(a, b) ==
    IF IsObj(a) \/ IsObj(b) THEN ERR
    ELSE IF a.t = "other" \/ b.t = "other" THEN INEXACT
    ELSE IF b.den = 1
    THEN IF b.num >= 0
         THEN LET r == PowNat(a, b.num)
              IN IF r.t = "other" THEN INEXACT ELSE [r EXCEPT !.t = NumType(a, b)]
         ELSE IF IsZero(a) THEN ERR   \* 0 to a negative power
         ELSE LET r == PowNat(a, -b.num)
              IN IF r.t = "other" THEN INEXACT ELSE Norm("float", r.den, r.num)
    ELSE \* a fractional exponent
         IF IsZero(a) THEN (IF b.num > 0 THEN [a EXCEPT !.t = "float"] ELSE ERR)
         ELSE IF a.num = a.den THEN [a EXCEPT !.t = "float"]
         ELSE INEXACT

\* -a and +a
Neg(a, sign) ==
    IF IsObj(a) THEN ERR
    ELSE IF a.t = "other" THEN INEXACT
    ELSE [a EXCEPT !.num = sign * a.num]

\* Python's tokens: a literal (k = "num") or an operator (k = "op")
NumTok(v) == [k |-> "num", op |-> "", val |-> v]
OpTok(o) == [k |-> "op", op |-> o, val |-> ERR]

\* the end (exclusive) of the run of digits starting at i
RECURSIVE DigitsEnd(_, _)
DigitsEnd(s, i) == IF i <= Len(s) /\ IsDigit(s[i]) THEN DigitsEnd(s, i + 1) ELSE i

\* the decimal value of the digits s[a..b-1]; ExactLimit + 1 for any larger
RECURSIVE DecVal(_, _, _)
DecVal(s, a, b) ==
    IF b <= a THEN 0
    ELSE LET hi == DecVal(s, a, b - 1)
             v == hi * 10 + DigitVal(s[b - 1])
         IN IF hi > ExactLimit \/ v > ExactLimit THEN ExactLimit + 1 ELSE v

RECURSIVE Pow10(_)
Pow10(k) == IF k = 0 THEN 1 ELSE 10 * Pow10(k - 1)

\* the number literal that starts at i: [ok, val, end].  Forms: digits,
\* digits "." digits (either side may be empty, not both); an int literal
\* with a leading zero is a SyntaxError unless it is all zeros
NumberAt(s, i) ==
    LET e1 == DigitsEnd(s, i)
        point == e1 <= Len(s) /\ s[e1] = "."
        e2 == IF point THEN DigitsEnd(s, e1 + 1) ELSE e1
        ip == DecVal(s, i, e1)
        fp == DecVal(s, e1 + 1, e2)
        k == e2 - e1 - 1
    IN IF point
       THEN IF e1 = i /\ e2 = e1 + 1 THEN [ok |-> FALSE, val |-> ERR, end |-> e2]
            ELSE [ok |-> TRUE, end |-> e2,
                  val |-> IF ip > ExactLimit \/ fp > ExactLimit \/ k > 4 THEN INEXACT
                          ELSE IF ip * Pow10(k) > ExactLimit THEN INEXACT
                          ELSE Norm("float", ip * Pow10(k) + fp, Pow10(k))]
       ELSE IF e1 - i > 1 /\ s[i] = "0" /\ ip # 0
            THEN [ok |-> FALSE, val |-> ERR, end |-> e1]
            ELSE [ok |-> TRUE, end |-> e1,
                  val |-> IF ip > ExactLimit THEN INEXACT ELSE IntVal(ip)]

\* the tokens of s[i..]: [ok, toks]; the longest operator is taken ("**",
\* "//"); "..." not followed at once by a digit of its own is the Ellipsis
RECURSIVE Tokenize(_, _)
Tokenize(s, i) ==
    IF i > Len(s) THEN [ok |-> TRUE, toks |-> << >>]
    ELSE IF IsSpace(s[i]) THEN Tokenize(s, i + 1)
    ELSE IF HasAt(s, << ".", ".", "." >>, i)
    THEN LET rest == Tokenize(s, i + 3)
         IN IF rest.ok THEN [ok |-> TRUE, toks |-> << NumTok(ELLIPSIS) >> \o rest.toks]
            ELSE rest
    ELSE IF IsDigit(s[i]) \/ s[i] = "."
    THEN LET n == NumberAt(s, i)
             rest == Tokenize(s, n.end)
         IN IF n.ok /\ rest.ok
            THEN [ok |-> TRUE, toks |-> << NumTok(n.val) >> \o rest.toks]
            ELSE [ok |-> FALSE, toks |-> << >>]
    ELSE LET double == /\ s[i] \in {"*", "/"}
                       /\ i < Len(s)
                       /\ s[i + 1] = s[i]
             rest == Tokenize(s, IF double THEN i + 2 ELSE i + 1)
         IN IF rest.ok
            THEN [ok |-> TRUE,
                  toks |-> << OpTok(IF double THEN << s[i], s[i] >> ELSE << s[i] >>) >>
                           \o rest.toks]
            ELSE rest

\* the token at p is the operator o
IsOp(ts, p, o) == p <= Len(ts) /\ ts[p].k = "op" /\ ts[p].op = o

\* a parse: the value and the position after it; ok = FALSE for a
\* SyntaxError or an exception raised by the evaluation
Fail == [ok |-> FALSE, v |-> ERR, p |-> 0]
Done(v, p) == IF v.t = "err" THEN Fail ELSE [ok |-> TRUE, v |-> v, p |-> p]

\* Python's expression grammar, one rule per arm; acc is the value of
\* the operands read so far in the rules that loop
RECURSIVE ParseRule(_, _, _, _)
ParseRule(rule, ts, p, acc) ==
    CASE rule = "atom" ->
         \* atom: NUMBER | "(" ")" | "(" arith ")"
         IF p > Len(ts) THEN Fail
         ELSE IF ts[p].k = "num" THEN Done(ts[p].val, p + 1)
         ELSE IF IsOp(ts, p, << "(" >>)
         THEN IF IsOp(ts, p + 1, << ")" >>) THEN Done(TUPLE, p + 2)
              ELSE LET e == ParseRule("arith", ts, p + 1, ERR)
                   IN IF e.ok /\ IsOp(ts, e.p, << ")" >>) THEN Done(e.v, e.p + 1) ELSE Fail
         ELSE Fail
      [] rule = "power" ->
         \* power: atom ["**" factor]; an atom followed by "(" is a call of a
         \* value that is not callable: a SyntaxError or a TypeError
         LET a == ParseRule("atom", ts, p, ERR)
         IN IF ~a.ok \/ IsOp(ts, a.p, << "(" >>) THEN Fail
            ELSE IF IsOp(ts, a.p, << "*", "*" >>)
            THEN LET f == ParseRule("factor", ts, a.p + 1, ERR)
                 IN IF f.ok THEN Done(Pow(a.v, f.v), f.p) ELSE Fail
            ELSE a
      [] rule = "factor" ->
         \* factor: ("+" | "-") factor | power
         IF IsOp(ts, p, << "-" >>) \/ IsOp(ts, p, << "+" >>)
         THEN LET f == ParseRule("factor", ts, p + 1, ERR)
              IN IF f.ok
                 THEN Done(Neg(f.v, IF ts[p].op = << "-" >> THEN -1 ELSE 1), f.p)
                 ELSE Fail
         ELSE ParseRule("power", ts, p, ERR)
      [] rule = "term_rest" ->
         \* (("*" | "/" | "//") factor)*
         IF IsOp(ts, p, << "*" >>) \/ IsOp(ts, p, << "/" >>) \/ IsOp(ts, p, << "/", "/" >>)
         THEN LET f == ParseRule("factor", ts, p + 1, ERR)
                  r == IF ts[p].op = << "*" >> THEN Mul(acc, f.v)
                       ELSE IF ts[p].op = << "/" >> THEN TrueDiv(acc, f.v)
                       ELSE FloorDiv(acc, f.v)
              IN IF f.ok /\ r.t # "err" THEN ParseRule("term_rest", ts, f.p, r) ELSE Fail
         ELSE Done(acc, p)
      [] rule = "term" ->
         \* term: factor (("*" | "/" | "//") factor)*
         LET f == ParseRule("factor", ts, p, ERR)
         IN IF f.ok THEN ParseRule("term_rest", ts, f.p, f.v) ELSE Fail
      [] rule = "arith_rest" ->
         \* (("+" | "-") term)*
         IF IsOp(ts, p, << "+" >>) \/ IsOp(ts, p, << "-" >>)
         THEN LET f == ParseRule("term", ts, p + 1, ERR)
                  r == Add(acc, f.v, IF ts[p].op = << "-" >> THEN -1 ELSE 1)
              IN IF f.ok /\ r.t # "err" THEN ParseRule("arith_rest", ts, f.p, r) ELSE Fail
         ELSE Done(acc, p)
      [] rule = "arith" ->
         \* arith: term (("+" | "-") term)*
         LET f == ParseRule("term", ts, p, ERR)
         IN IF f.ok THEN ParseRule("arith_rest", ts, f.p, f.v) ELSE Fail

\* an expression: arith
ParseArith(ts, p) == ParseRule("arith", ts, p, ERR)

\* eval(expression, ...): the value, or ERR for any exception it raises
Eval(s) ==
    LET tk == Tokenize(s, 1)
    IN IF ~tk.ok THEN ERR
       ELSE LET r == ParseArith(tk.toks, 1)
            IN IF r.ok /\ r.p = Len(tk.toks) + 1 THEN r.v ELSE ERR

\* expression.replace("^", "**")
RECURSIVE ReplaceCaret(_)
ReplaceCaret(s) ==
    IF s = << >> THEN << >>
    ELSE (IF Head(s) = "^" THEN << "*", "*" >> ELSE << Head(s) >>) \o ReplaceCaret(Tail(s))

\* the validation left out
AllAllowed(expr) == TRUE
\* all(c in allowed_chars or c.isspace() for c in expression)
OnlyAllowedChars(expr) ==
    \A i \in 1..Len(expr) : expr[i] \in allowed_chars \/ IsSpace(expr[i])

\* _calculator(expression).  kind: "rejected" (the rejection message),
\* "ok" (the result line) or "calc_error" (the error message); evaluated:
\* eval was called, on the text given
_calculator(expr) ==
    IF ~OnlyAllowedChars(expr)
    THEN [kind |-> "rejected", evaluated |-> FALSE, text |-> << >>, value |-> ERR]
    ELSE LET replaced == ReplaceCaret(expr)
             result == Eval(replaced)
         IN [kind |-> IF result.t = "err" THEN "calc_error" ELSE "ok",
             evaluated |-> TRUE, text |-> replaced, value |-> result]

Calculate ==
    /\ calc.kind = "none"
    /\ calc' = _calculator(expression)
    /\ UNCHANGED << expression, text, tool_calls, pc, next_call, outcomes, tools,
                    HAS_RESEARCH_TOOLS, tavily_api_key, client_calls, writeVars, searchVars >>

\* every expression over a small alphabet, "_" standing for the characters
\* that are not allowed, and some longer ones
CalcSyms == { "0", "2", "3", "+", "-", "*", "/", "^", "(", ")", ".", " ", "_" }
IMPORT_OS ==
    << "_", "_", "i", "m", "p", "o", "r", "t", "_", "_", "(", "'", "o", "s", "'", ")" >>
LongExprs ==
    { IMPORT_OS,
      << "2", "^", "3", "^", "2" >>,
      << "(", "2", "+", "3", ")", "*", "2" >>,
      << "2", " ", "*", "*", " ", "3" >>,
      << "7", "/", "/", "2" >>,
      << "2", "/", "/", "0" >>,
      << "2", "^", "-", "3" >>,
      << "0", "^", "-", "2" >>,
      << "s", "q", "r", "t", "(", "4", ")" >>,
      << "1", ".", "5", "*", "4" >> }
CalcInputs == SeqsUpTo(CalcSyms, MaxExprLen) \cup LongExprs

NextCalc == Calculate
InitCalc ==
    /\ InitIdle /\ InitFiles /\ InitSearch
    /\ expression \in CalcInputs
    /\ calc = NotCalled
SpecCalc == InitCalc /\ [][NextCalc]_vars

-----------------------------------------------------------------------------
(* The call grammar, stated on the text alone. *)

\* an opening marker "[TOOL:<name>]" with a non-empty word name starts at p
OpensAt(s, p) ==
    /\ HasAt(s, OPEN_LIT, p)
    /\ \E e \in (p + 4)..Len(s) : s[e] = "]" /\ \A j \in (p + 3)..(e - 1) : IsWord(s[j])
\* the position of that marker's "]"
NameClose(s, p) ==
    CHOOSE e \in (p + 4)..Len(s) : s[e] = "]" /\ \A j \in (p + 3)..(e - 1) : IsWord(s[j])
\* the positions of the "[/TOOL]" that follow the opening marker at p
ClosesAfter(s, p) == {q \in (NameClose(s, p) + 1)..Len(s) : HasAt(s, CLOSE_LIT, q)}
\* the positions at which an occurrence of the marker starts
Occurrences(s) == {p \in 1..Len(s) : OpensAt(s, p) /\ ClosesAfter(s, p) # {}}
\* the first "[/TOOL]" after the opening marker at p
FirstClose(s, p) == CHOOSE q \in ClosesAfter(s, p) : \A r \in ClosesAfter(s, p) : q <= r
OccEnd(s, p) == FirstClose(s, p) + Len(CLOSE_LIT)
OccName(s, p) == SubSeq(s, p + 3, NameClose(s, p) - 1)
OccArgs(s, p) == SubSeq(s, NameClose(s, p) + 1, FirstClose(s, p) - 1)
\* S holds the occurrences a left-to-right scan without overlap meets: no two
\* of S overlap, and every occurrence left out starts inside one of S
ScannedBy(s, S) ==
    /\ \A p \in S, q \in S : p < q => OccEnd(s, p) <= q
    /\ \A p \in Occurrences(s) \ S : \E q \in S : q < p /\ p < OccEnd(s, q)
Scan(s) == CHOOSE S \in SUBSET Occurrences(s) : ScannedBy(s, S)
\* the start of the i-th occurrence of the scan
NthStart(s, i) == CHOOSE p \in Scan(s) : Cardinality({q \in Scan(s) : q <= p}) = i

\* t is raw without its leading and trailing whitespace
IsTrimOf(t, raw) ==
    \E lo \in 1..(Len(raw) + 1), hi \in 0..Len(raw) :
        /\ t = SubSeq(raw, lo, hi)
        /\ \A j \in 1..Len(raw) : (j < lo \/ j > hi) => raw[j] \in Whitespace
        /\ t # << >> => (t[1] \notin Whitespace /\ t[Len(t)] \notin Whitespace)

\* the pieces of seg between its "|": <<a, b>> is the piece seg[a+1 .. b-1]
PieceSpans(seg) ==
    LET marks == {0, Len(seg) + 1} \cup {j \in 1..Len(seg) : seg[j] = "|"}
    IN {sp \in marks \X marks :
          sp[1] < sp[2] /\ ~ \E m \in marks : sp[1] < m /\ m < sp[2]}
PieceOf(seg, sp) == SubSeq(seg, sp[1] + 1, sp[2] - 1)
KeyValueSpans(seg) == {sp \in PieceSpans(seg) : Contains(PieceOf(seg, sp), "=")}
\* the text of a piece before and after its first "="
RawKey(seg, sp) ==
    LET pc0 == PieceOf(seg, sp)
        e == CHOOSE i \in 1..Len(pc0) : pc0[i] = "=" /\ \A j \in 1..(i - 1) : pc0[j] # "="
    IN SubSeq(pc0, 1, e - 1)
RawValue(seg, sp) ==
    LET pc0 == PieceOf(seg, sp)
        e == CHOOSE i \in 1..Len(pc0) : pc0[i] = "=" /\ \A j \in 1..(i - 1) : pc0[j] # "="
    IN SubSeq(pc0, e + 1, Len(pc0))

-----------------------------------------------------------------------------
(* The claims. *)

\* C1 (as claimed): every execute_tool call returns a string and none raises;
\* for an unregistered name the string is the not-found message and no
\* handler is invoked.
C1_ExecuteToolAlwaysReturnsString ==
    \A i \in 1..Len(outcomes) :
        /\ outcomes[i].kind # "raised"
        /\ outcomes[i].tool \notin DOMAIN tools =>
              /\ outcomes[i].kind = "not_found"
              /\ outcomes[i].handler = "none"
              /\ ~outcomes[i].ran_body

\* an outcome whose handler was invoked and raised
HandlerRaised(o) == o.handler # "none" /\ o.msg # "none"

\* C2 (as claimed): a handler's exception comes back as the error string that
\* carries the tool's name and the exception's message; in a batch every call
\* after a failing one is executed and returns its own result (a string); the
\* descriptor table stays as constructed.
C2_FailureIsolatedInBatch ==
    /\ \A i \in 1..Len(outcomes) :
          HandlerRaised(outcomes[i]) =>
             /\ outcomes[i].kind = "exec_error"
             /\ outcomes[i].tool = tool_calls[i].tool
    /\ \A i \in 1..Len(outcomes), j \in 1..Len(tool_calls) :
          (outcomes[i].kind = "exec_error" /\ j > i) =>
             /\ next_call >= j
             /\ j <= Len(outcomes) =>
                   /\ outcomes[j].kind # "raised"
                   /\ outcomes[j].tool = tool_calls[j].tool
                   /\ outcomes[j].args = tool_calls[j].args
    /\ tools = NewRegistry(HAS_RESEARCH_TOOLS)

\* C5: the parser returns one request per occurrence of [TOOL:<name>]<args>[/TOOL]
\* met scanning left to right without overlap, in order of appearance; the
\* name is a non-empty word token, the args segment ends at the first [/TOOL]
\* after the opening marker, each segment is parsed on its own, and a text
\* without an occurrence gives the empty sequence.
C5_OneRequestPerMarkerInOrder ==
    pc # "start" =>
        \E S \in SUBSET Occurrences(text) :
            /\ ScannedBy(text, S)
            /\ Len(tool_calls) = Cardinality(S)
            /\ \A p \in S :
                  LET i == Cardinality({q \in S : q <= p})
                  IN /\ tool_calls[i].tool = OccName(text, p)
                     /\ FindLit(OccArgs(text, p), CLOSE_LIT, 1) = 0
                     /\ tool_calls[i].args = ParseArgs(OccName(text, p), OccArgs(text, p))

\* two requests, the first of which holds a newline or "[TOOL:" text in its
\* args segment
C5_Witness ==
    /\ pc = "parsed"
    /\ Len(tool_calls) = 2
    /\ \E p \in Scan(text) :
          Contains(OccArgs(text, p), "\n") \/ FindLit(OccArgs(text, p), OPEN_LIT, 1) # 0

\* C6: an args segment that holds "=" is split on "|"; the mapping has one
\* entry per piece holding "=", key the trimmed text before the piece's first
\* "=", value the trimmed text after it, the last piece winning for a key
\* given twice; pieces without "=" add nothing, whatever the tool name.
C6_KeyValueArgs ==
    pc # "start" =>
        \A i \in 1..Len(tool_calls) :
            LET seg == OccArgs(text, NthStart(text, i))
                M == tool_calls[i].args
            IN Contains(seg, "=") =>
                /\ \A sp \in KeyValueSpans(seg) :
                      \E k \in DOMAIN M : IsTrimOf(k, RawKey(seg, sp))
                /\ \A k \in DOMAIN M :
                      \E sp \in KeyValueSpans(seg) :
                          /\ IsTrimOf(k, RawKey(seg, sp))
                          /\ IsTrimOf(M[k], RawValue(seg, sp))
                          /\ \A sp2 \in KeyValueSpans(seg) :
                                IsTrimOf(k, RawKey(seg, sp2)) => sp2[1] <= sp[1]

\* a key given twice with different values beside a piece without "=", for a
\* tool that has a positional rule
C6_Witness ==
    /\ pc = "parsed"
    /\ \E i \in 1..Len(tool_calls) :
          LET seg == OccArgs(text, NthStart(text, i))
          IN /\ tool_calls[i].tool = Name("write_file")
             /\ Cardinality(KeyValueSpans(seg)) = 2
             /\ Cardinality(DOMAIN tool_calls[i].args) = 1
             /\ \E sp \in KeyValueSpans(seg), sp2 \in KeyValueSpans(seg) :
                   Strip(RawValue(seg, sp)) # Strip(RawValue(seg, sp2))

C10_UnavailableResearchTools ==
    (~HAS_RESEARCH_TOOLS \/ tavily_api_key = << >>) =>
        /\ client_calls = << >>
        /\ \A i \in 1..Len(outcomes) :
              outcomes[i].tool \in {Name(w) : w \in ResearchToolNames} =>
                  outcomes[i].kind = "not_available"


\* a location directly in the sandbox directory
InSandbox(loc) == Len(loc) = Len(SandboxLoc) + 1 /\ SubSeq(loc, 1, Len(SandboxLoc)) = SandboxLoc
\* n is what follows the last "/" of path (all of path when it has none)
IsBasenameOf(n, path) ==
    \E i \in 0..Len(path) :
        /\ n = SubSeq(path, i + 1, Len(path))
        /\ ~Contains(n, "/")
        /\ i = 0 \/ path[i] = "/"
\* the locations whose file differs between two filesystems
Changed(f, g) ==
    {loc \in (DOMAIN f) \cup (DOMAIN g) :
        loc \notin DOMAIN f \/ loc \notin DOMAIN g \/ f[loc] # g[loc]}

\* C3 (as claimed): once all concurrent write_file calls have finished, every
\* file they wrote holds exactly the complete content of one of the calls
\* that wrote it.
C3_ConcurrentWritesSerialized ==
    (\A w \in Writers : wpc[w] \in {"idle", "done"}) =>
        \A loc \in (DOMAIN fs) \ (DOMAIN InitFs) :
            \E w \in Writers :
                wpc[w] = "done" /\ wres[w] = "ok" /\ wfd[w] = loc /\ fs[loc] = wreq[w].content

C4_NothingOutsideSandbox ==
    \A loc \in (DOMAIN fs) \cup (DOMAIN InitFs) :
        ~InSandbox(loc) => loc \in DOMAIN fs /\ loc \in DOMAIN InitFs /\ fs[loc] = InitFs[loc]
C4_CallResult ==
    \A w \in Writers :
        wpc[w] = "done" =>
            \/ /\ wres[w] = "ok"
               /\ InSandbox(wfd[w])
               /\ IsBasenameOf(wfd[w][Len(wfd[w])], wreq[w].path)
               /\ fs[wfd[w]] = wreq[w].content
            \/ wres[w] = "handler_error"
C4_StepWritesOneFile ==
    \A w \in Writers :
        /\ wpc[w] # wpc'[w] =>
              \A loc \in Changed(fs, fs') :
                  InSandbox(loc) /\ IsBasenameOf(loc[Len(loc)], wreq[w].path)
        /\ (wpc[w] # "done" /\ wpc'[w] = "done" /\ wres'[w] = "handler_error") =>
              fs' = fs /\ wpc[w] \in {"idle", "open"}
\* C4: for every path argument and after any sequence of write_file calls,
\* a call either writes exactly one file, located directly in the sandbox
\* directory and named by the basename of the path, or writes nothing and
\* returns an error message; no file outside the sandbox is created or changed.
C4_WritesConfinedToSandbox ==
    /\ [](C4_NothingOutsideSandbox /\ C4_CallResult)
    /\ [][C4_StepWritesOneFile]_vars

\* "../../etc/passwd" written as the sandbox's file passwd, after a call with
\* a path that names no file returned an error
C4_Witness ==
    /\ wpc[1] = "done"
    /\ wres[1] = "ok"
    /\ wreq[1].path = << ".", ".", "/", ".", ".", "/", "etc", "/", "passwd" >>
    /\ fs[Append(SandboxLoc, << "passwd" >>)] = FRESH
    /\ ncalls = 2
    /\ Cardinality(DOMAIN fs) = Cardinality(DOMAIN InitFs) + 1


\* the claimed filter: keep a result when its published_date is absent, is
\* present but unparseable, or parses to a date not earlier than the cutoff
ClaimedKeep(r, cutoff) ==
    \/ r.published_date.kind = "absent"
    \/ r.published_date.kind \in {"empty", "bad"}
    \/ r.published_date.kind = "iso" /\ r.published_date.day >= cutoff
\* the subsequence of rs at the indices in K, in order
Pick(rs, K) ==
    [n \in 1..Cardinality(K) |->
        rs[CHOOSE i \in K : Cardinality({j \in K : j <= i}) = n]]

\* C8 (as claimed): on a 200 answer search keeps exactly the results whose
\* published_date is absent, unparseable, or not earlier than the cutoff
\* (a date with a "Z" or offset suffix included), in upstream order, cut to
\* num_results; filtered_by_date says whether a result was excluded.
C8_RecencyFilter ==
    (response.method = "search" /\ response.success /\ ~response.mock) =>
        LET cutoff == NowDay - response.max_age_days
            K == {i \in 1..Len(upstream) : ClaimedKeep(upstream[i], cutoff)}
        IN /\ response.results = Take(Pick(upstream, K), response.num_results)
           /\ response.filtered_by_date = (Cardinality(K) < Len(upstream))

\* an entry that carries a URL: present and not empty
HasUrl(r) == r.url.present /\ r.url.val # << >>

\* C9 (as claimed): deep_research returns the accumulated results with every
\* later entry whose URL was already seen removed, capped to 15.
C9_DedupOnly ==
    response.method = "deep_research" =>
        LET acc == response.all_results
            K == {i \in 1..Len(acc) :
                    ~ \E j \in 1..(i - 1) : acc[j].url = acc[i].url /\ acc[i].url.present}
        IN response.results = Take(Pick(acc, K), UniqueCap)

\* C9 (amended): deep_research returns the accumulated results with every
\* entry that has no URL or an empty one removed and every later entry whose
\* URL was already seen removed: no two returned entries share a URL, each is
\* the first occurrence of its URL, the order is kept, the cap is 15.
C9_DedupAndDropUrlless ==
    response.method = "deep_research" =>
        LET acc == response.all_results
            K == {i \in 1..Len(acc) :
                    HasUrl(acc[i]) /\ ~ \E j \in 1..(i - 1) : acc[j].url = acc[i].url}
            res == response.results
        IN /\ res = Take(Pick(acc, K), UniqueCap)
           /\ Len(res) <= UniqueCap
           /\ \A a \in 1..Len(res), b \in 1..Len(res) : res[a].url = res[b].url => a = b
           /\ response.total = Cardinality(K)

\* two accumulated entries of one URL that differ otherwise: the first stays
C9_Witness ==
    /\ response.method = "deep_research"
    /\ Len(response.all_results) = 2
    /\ response.all_results[1].url = response.all_results[2].url
    /\ response.all_results[1] # response.all_results[2]
    /\ response.results = << response.all_results[1] >>

\* C11: with no credential, every search returns a success response tagged
\* mock that holds exactly one synthetic result, every scrape returns a
\* success response tagged mock, and no call of search, scrape,
\* search_and_scrape or deep_research issues a network request.
C11_MockModeNoNetwork ==
    tavily_api_key = << >> =>
        /\ response.method = "search" =>
              /\ response.success /\ response.mock
              /\ response.results = << MockResult >>
              /\ Len(response.results) = 1
        /\ response.method = "scrape" => response.success /\ response.mock
        /\ response.method = "search_and_scrape" =>
              /\ \A i \in 1..Len(response.search_calls) :
                    response.search_calls[i].mock /\ response.search_calls[i].posts = << >>
              /\ \A i \in 1..Len(response.scrape_calls) :
                    response.scrape_calls[i].mock /\ response.scrape_calls[i].posts = << >>
        /\ response.posts = << >>

\* search_and_scrape without a credential: one mock search, one mock scrape
\* of the synthetic result, nothing sent
C11_Witness ==
    /\ tavily_api_key = << >>
    /\ response.method = "search_and_scrape"
    /\ ~response.raised
    /\ Len(response.search_calls) = 1 /\ response.search_calls[1].mock
    /\ Len(response.scrape_calls) = 1 /\ response.scrape_calls[1].mock
    /\ response.scrape_calls[1].url = MockResult.url
    /\ response.returned.total_scraped = 1
    /\ response.posts = << >>

\* the smaller of two numbers
Min(a, b) == IF a < b THEN a ELSE b

\* C12 (as claimed): search_and_scrape calls search once with num_results=5;
\* a failed search is returned unchanged and nothing is scraped; otherwise it
\* makes exactly min(3, number of search results) scrape calls, in result
\* order, for the URLs of the first results, whatever the scrapes answer, and
\* returns the complete search results with scraped_pages in that order, each
\* content of at most 2000 characters.
C12_SearchThenScrapeFirstThree ==
    response.method = "search_and_scrape" =>
        /\ Len(response.search_calls) = 1
        /\ response.search_calls[1].num_results = SasNumResults
        /\ LET sr == response.search_calls[1]
               k == Min(SasMaxScrapes, Len(sr.results))
           IN IF ~sr.success
              THEN /\ ~response.raised
                   /\ response.returned = sr
                   /\ response.scrape_calls = << >>
              ELSE /\ ~response.raised
                   /\ Len(response.scrape_calls) = k
                   /\ \A i \in 1..k : response.scrape_calls[i].url = sr.results[i].url
                   /\ response.returned.search_results = sr.results
                   /\ Len(response.returned.scraped_pages) = k
                   /\ \A i \in 1..k :
                         LET page == response.returned.scraped_pages[i]
                         IN /\ page.url = sr.results[i].url
                            /\ page.success = response.scrape_calls[i].success
                            /\ page.content.kind = "str"
                            /\ page.content.len <= ContentCap

\* the expression with every "^" replaced by "**", stated by splitting
PowerForm(e) == Join(Split(e, "^"), << "*", "*" >>)

\* C13: calculator returns the rejection message, evaluating nothing, for
\* every expression with a character other than a digit, whitespace or one of
\* + - * / ( ) . ^ ("__import__('os')" among them); every other expression is
\* evaluated after each "^" is replaced by "**" ("2^3" gives 8), and an
\* evaluation error gives the error message, not an exception.
C13_CalculatorValidatesThenEvaluates ==
    calc.kind # "none" =>
        /\ calc.kind \in {"rejected", "ok", "calc_error"}
        /\ IF \E i \in 1..Len(expression) :
                 ~(IsDigit(expression[i]) \/ expression[i] \in Whitespace
                     \/ expression[i] \in {"+", "-", "*", "/", "(", ")", ".", "^"})
           THEN calc.kind = "rejected" /\ ~calc.evaluated
           ELSE /\ calc.kind \in {"ok", "calc_error"}
                /\ calc.evaluated
                /\ calc.text = PowerForm(expression)
                /\ calc.kind = "calc_error" <=> Eval(PowerForm(expression)) = ERR
                /\ calc.kind = "ok" => calc.value = Eval(PowerForm(expression))
        /\ expression = IMPORT_OS => calc.kind = "rejected"
        /\ expression = << "2", "^", "3" >> => calc.kind = "ok" /\ calc.value = IntVal(8)
        /\ \A a \in {2, 3}, b \in {0, 2, 3} :
              expression = << DigitChars[a + 1], "^", DigitChars[b + 1] >> =>
                  calc.kind = "ok" /\ calc.value = IntVal(a ^ b)

\* "2^3" evaluated to 8
C13_Witness ==
    /\ expression = << "2", "^", "3" >>
    /\ calc.kind = "ok"
    /\ calc.evaluated
    /\ calc.text = << "2", "*", "*", "3" >>
    /\ calc.value = IntVal(8)

\* the tools C14 names
QueryOnlyTools ==
    {Name(w) : w \in {"calculator", "count_words", "execute_python", "list_directory",
                      "system_info", "get_datetime", "research_status"}}

\* C14 (as claimed): for a marker whose args segment holds no "=", the only
\* argument key for calculator, count_words, execute_python, list_directory,
\* system_info, get_datetime and research_status is "query", none of their
\* handlers has a parameter "query", and execute_tool on the parsed request
\* returns the execution-error string of that tool without running the
\* handler's body.
C14_QueryKeyNeverBinds ==
    /\ \A t \in QueryOnlyTools :
          t \in DOMAIN tools =>
              Name("query") \notin Params(tools[t].function).req
                                      \cup Params(tools[t].function).opt
    /\ pc # "start" =>
          \A i \in 1..Len(tool_calls) :
              (/\ tool_calls[i].tool \in QueryOnlyTools
               /\ ~Contains(OccArgs(text, NthStart(text, i)), "=")) =>
                  /\ DOMAIN tool_calls[i].args = {Name("query")}
                  /\ i <= Len(outcomes) =>
                        /\ outcomes[i].kind = "exec_error"
                        /\ outcomes[i].tool = tool_calls[i].tool
                        /\ ~outcomes[i].ran_body

====
